---- MODULE Spec2Model ----
(***************************************************************************)
(* Model of the build orchestrator of src/main.c: argument parsing, the    *)
(* directory checks, discovery, the compile loop, the link stage and the   *)
(* optional run stage.  Strings are sequences of one-character strings, so *)
(* that path derivation and command building are computed, not assumed.    *)
(* The helpers of b.h (not part of src/) are modelled from their           *)
(* documented contracts; whatever they leave open (the outcome of a child  *)
(* process, of a directory creation, ...) is a nondeterministic choice.    *)
(***************************************************************************)
EXTENDS Integers, Sequences, FiniteSets, TLC

VARIABLES
  argv,         \* the argument vector, argv[1] being C's argv[0]
  pc,           \* position of main (or of the direct-call harness)
  i,            \* the loop index of the loop main is in
  should_run,   \* main.c:68
  output_name,  \* main.c:67
  dirs,         \* filesystem: the directories that exist
  files,        \* filesystem: the regular files that exist
  execs,        \* filesystem: the files carrying executable permission
  src_files,    \* main.c:101, an Array or NULL
  obj_files,    \* main.c:110, an Array or NULL
  output_path,  \* main.c:141
  log,          \* history: every library / libc call made, in order
  exit_status   \* the status the process ended with, -1 while running

vars == <<argv, pc, i, should_run, output_name, dirs, files, execs,
          src_files, obj_files, output_path, log, exit_status>>

(***************************************************************************)
(* Bounds of the model.                                                    *)
(***************************************************************************)
MaxArgs == 4
MaxSrc == 2

(***************************************************************************)
(* String constants of main.c.                                             *)
(***************************************************************************)
src_dir == <<"s", "r", "c">>
obj_dir == <<"o", "b", "j">>
bin_dir == <<"b", "i", "n">>
DefaultOutputName == <<"p", "r", "o", "g", "r", "a", "m">>
RunFlag == <<"-", "-", "r", "u", "n">>
RunWord == <<"r", "u", "n">>
OutFlag == <<"-", "-", "o", "u", "t">>
AppName == <<"a", "p", "p">>
ProgName == <<"b">>
SrcExt == <<".", "c">>
ObjExt == <<".", "o">>
Gcc == <<"g", "c", "c">>
CompileCmd(src_file, obj_file) ==
  <<Gcc, <<"-", "c">>, <<"-", "o">>, obj_file, src_file,
    <<"-", "W", "a", "l", "l">>, <<"-", "W", "e", "r", "r", "o", "r">>>>
LinkPrefix == <<"g", "c", "c", " ", "-", "o", " ">>
DotSlash == <<".", "/">>

(***************************************************************************)
(* The Array of b.h and the NULL pointer.                                  *)
(***************************************************************************)
NULL == [isNull |-> TRUE, items |-> <<>>]
array_new == [isNull |-> FALSE, items |-> <<>>]
array_add(arr, item) == [arr EXCEPT !.items = Append(@, item)]
Count(arr) == Len(arr.items)

(***************************************************************************)
(* String and path helpers of b.h.                                         *)
(***************************************************************************)
strcat_new(str1, str2) == str1 \o str2

pathjoin(path1, path2) == path1 \o <<"/">> \o path2

RECURSIVE LastSlash(_, _)
LastSlash(path, k) ==
  IF k = 0 THEN 0
  ELSE IF path[k] = "/" THEN k
  ELSE LastSlash(path, k - 1)

path_basename(path) ==
  SubSeq(path, LastSlash(path, Len(path)) + 1, Len(path))

MatchesAt(str, sub, k) ==
  /\ k + Len(sub) - 1 <= Len(str)
  /\ SubSeq(str, k, k + Len(sub) - 1) = sub

RECURSIVE FirstMatch(_, _, _)
FirstMatch(str, sub, k) ==
  IF k + Len(sub) - 1 > Len(str) THEN 0
  ELSE IF MatchesAt(str, sub, k) THEN k
  ELSE FirstMatch(str, sub, k + 1)

strreplace(str, old_sub, new_sub) ==
  LET k == FirstMatch(str, old_sub, 1) IN
    IF k = 0 THEN str
    ELSE SubSeq(str, 1, k - 1) \o new_sub
         \o SubSeq(str, k + Len(old_sub), Len(str))

(***************************************************************************)
(* Filesystem queries of b.h and the history of calls.                     *)
(***************************************************************************)
dir_exists(path) == path \in dirs
file_exists_in(fs, path) == path \in fs
is_exec(path) == path \in execs

Ev(op, arg, res) == [op |-> op, arg |-> arg, res |-> res]
BoolStr(b) == IF b THEN "true" ELSE "false"
HasOp(op) == \E k \in DOMAIN log : log[k].op = op
OpsOf(op) == SelectSeq(log, LAMBDA e : e.op = op)

(***************************************************************************)
(* Child processes.  run_command (b.h) returns a capture when the process  *)
(* was started and NULL when it could not be created; it does not look at  *)
(* the exit status.  A compile child that exits 0 has written its object   *)
(* file; one that fails leaves the path alone or removes it.  system()     *)
(* returns -1 when no child could be created and the wait status           *)
(* otherwise.                                                              *)
(***************************************************************************)
CompileOutcomes == {"nospawn", "exit0", "exit1_keep", "exit1_rm"}
SystemStatuses == {"nospawn", "exit0", "exit1"}
LinkEffects == {"create", "keep", "remove"}
LinkOutcomes ==
  {o \in [st : SystemStatuses, eff : LinkEffects] :
     o.st = "nospawn" => o.eff = "keep"}

run_command_started(oc) == oc # "nospawn"

CompileChildFiles(fs, obj_file, oc) ==
  CASE oc = "exit0" -> fs \cup {obj_file}
    [] oc = "exit1_rm" -> fs \ {obj_file}
    [] OTHER -> fs

SystemReturn(st) ==
  CASE st = "nospawn" -> 0 - 1
    [] st = "exit0" -> 0
    [] OTHER -> 256

LinkChildFiles(fs, output, oc) ==
  CASE oc.eff = "create" -> fs \cup {output}
    [] oc.eff = "remove" -> fs \ {output}
    [] OTHER -> fs

(***************************************************************************)
(* compile_file, main.c:4-15.  The value is the returned boolean, the      *)
(* files that exist afterwards and the calls it made.                      *)
(***************************************************************************)
\* compile_file deciding by the exit status of the child
compile_file_by_exit_status(src_file, obj_file, oc) ==
  [ret |-> oc = "exit0",
   files |-> CompileChildFiles(files, obj_file, oc),
   calls |-> <<Ev("run_command", CompileCmd(src_file, obj_file), oc),
               Ev("compile_file", <<src_file, obj_file>>,
                  BoolStr(oc = "exit0"))>>]

compile_file(src_file, obj_file, oc) ==
  LET result == run_command_started(oc)
      after == CompileChildFiles(files, obj_file, oc)
      ret == IF result THEN file_exists_in(after, obj_file) ELSE FALSE
  IN [ret |-> ret,
      files |-> after,
      calls |-> <<Ev("run_command", CompileCmd(src_file, obj_file), oc),
                  Ev("compile_file", <<src_file, obj_file>>, BoolStr(ret))>>]

(***************************************************************************)
(* link_files, main.c:18-39.                                               *)
(***************************************************************************)
RECURSIVE LinkCmdFrom(_, _, _)
LinkCmdFrom(cmd, items, k) ==
  IF k > Len(items) THEN cmd
  ELSE LinkCmdFrom(strcat_new(strcat_new(cmd, <<" ">>), items[k]), items, k + 1)

\* the loop of main.c:29 started at the second object
LinkCmdSkipsFirst(output, arr) ==
  LinkCmdFrom(strcat_new(LinkPrefix, output), arr.items, 2)

LinkCmd(output, arr) ==
  LinkCmdFrom(strcat_new(LinkPrefix, output), arr.items, 1)

LinkSystem(output, arr, oc, ret) ==
  [ret |-> ret,
   files |-> LinkChildFiles(files, output, oc),
   execs |-> LinkChildFiles(execs, output, oc),
   calls |-> <<Ev("system", <<LinkCmd(output, arr)>>, oc.st),
               Ev("link_files", <<output>>, BoolStr(ret))>>]

LinkRefused(output) ==
  [ret |-> FALSE, files |-> files, execs |-> execs,
   calls |-> <<Ev("link_files", <<output>>, "false")>>]

\* link_files without the guard of main.c:19
link_files_unguarded(output, arr, oc) ==
  LinkSystem(output, arr, oc,
             /\ SystemReturn(oc.st) = 0
             /\ file_exists_in(LinkChildFiles(files, output, oc), output))

\* link_files trusting the existence of the output alone
link_files_existence_only(output, arr, oc) ==
  IF arr.isNull \/ Count(arr) = 0
  THEN LinkRefused(output)
  ELSE LinkSystem(output, arr, oc,
                  file_exists_in(LinkChildFiles(files, output, oc), output))

link_files(output, arr, oc) ==
  IF arr.isNull \/ Count(arr) = 0
  THEN LinkRefused(output)
  ELSE
    LET result == SystemReturn(oc.st)
        after == LinkChildFiles(files, output, oc)
    IN LinkSystem(output, arr, oc,
                  result = 0 /\ file_exists_in(after, output))

(***************************************************************************)
(* run_program, main.c:42-60.                                              *)
(***************************************************************************)
\* run_program without the permission check of main.c:50
run_program_unchecked_mode(program, st) ==
  IF ~file_exists_in(files, program)
  THEN [ret |-> FALSE,
        calls |-> <<Ev("run_program", <<program>>, "false")>>]
  ELSE [ret |-> SystemReturn(st) = 0,
        calls |-> <<Ev("system", <<strcat_new(DotSlash, program)>>, st),
                    Ev("run_program", <<program>>, BoolStr(SystemReturn(st) = 0))>>]

run_program(program, st) ==
  IF ~file_exists_in(files, program)
  THEN [ret |-> FALSE,
        calls |-> <<Ev("run_program", <<program>>, "false")>>]
  ELSE IF ~is_exec(program)
  THEN [ret |-> FALSE,
        calls |-> <<Ev("run_program", <<program>>, "false")>>]
  ELSE
    LET result == SystemReturn(st)
        ret == result = 0
    IN [ret |-> ret,
        calls |-> <<Ev("system", <<strcat_new(DotSlash, program)>>, st),
                    Ev("run_program", <<program>>, BoolStr(ret))>>]

(***************************************************************************)
(* The inputs: argument vectors, the initial filesystem and the content    *)
(* of src/.                                                                *)
(***************************************************************************)
FailExitStatus == 1

ArgTokens == {RunFlag, RunWord, OutFlag, AppName}

RECURSIVE SeqsUpTo(_, _)
SeqsUpTo(S, n) ==
  IF n = 0 THEN {<<>>}
  ELSE LET shorter == SeqsUpTo(S, n - 1) IN
         shorter \cup {Append(q, x) : q \in shorter, x \in S}

Distinct(q) == \A a, b \in 1..Len(q) : q[a] = q[b] => a = b

ArgVectors == {<<ProgName>> \o q : q \in SeqsUpTo(ArgTokens, MaxArgs)}

SrcNames == {<<"a", ".", "c">>, <<"b", ".", "c">>,
             <<"m", ".", "c", ".", "c">>}
SrcPaths == {pathjoin(src_dir, n) : n \in SrcNames}
Listings == {q \in SeqsUpTo(SrcPaths, MaxSrc) : Distinct(q)}

\* main.c:115 left out: the extension replaced in the whole source path
ObjPathOfWholePath(src_file) ==
  pathjoin(obj_dir, strreplace(src_file, SrcExt, ObjExt))

ObjPathOf(src_file) ==
  pathjoin(obj_dir, strreplace(path_basename(src_file), SrcExt, ObjExt))
ObjPaths == {ObjPathOf(p) : p \in SrcPaths}
OutNames == {DefaultOutputName, AppName}
OutPaths == {pathjoin(bin_dir, n) : n \in OutNames}

argc == Len(argv)
Arg(k) == argv[k + 1]

MainArgVectors ==
  {<<ProgName>>, <<ProgName, RunFlag>>,
   <<ProgName, RunFlag, OutFlag, AppName>>}

Start(vectors) ==
  /\ argv \in vectors
  /\ pc = "args"
  /\ i = 1
  /\ should_run = FALSE
  /\ output_name = DefaultOutputName
  /\ dirs \in SUBSET {src_dir, obj_dir, bin_dir}
  /\ \E stale \in SUBSET ObjPaths, out \in SUBSET OutPaths :
       /\ stale # {} => obj_dir \in dirs
       /\ out # {} => bin_dir \in dirs
       /\ Cardinality(stale) <= 1
       /\ Cardinality(out) <= 1
       /\ files = stale \cup out
       /\ execs \in SUBSET out
  /\ src_files = NULL
  /\ obj_files = NULL
  /\ output_path = <<>>
  /\ log = <<>>
  /\ exit_status = 0 - 1

Init == Start(MainArgVectors)

(***************************************************************************)
(* FAIL of b.h: logs and terminates the process.                           *)
(***************************************************************************)
Fail(calls) ==
  /\ log' = log \o calls \o <<Ev("FAIL", <<>>, "exit")>>
  /\ pc' = "exited"
  /\ exit_status' = FailExitStatus

(***************************************************************************)
(* main.c:70-77, one iteration of the argument loop, or its exit.          *)
(***************************************************************************)
\* the test of main.c:72 without its second alternative
IsRunArgFlagOnly(a) == a = RunFlag

IsRunArg(a) == a = RunFlag \/ a = RunWord
IsOutArg(k) == Arg(k) = OutFlag /\ k + 1 < argc

\* main.c:75 reading argv[i + 1] without advancing i past it
NextAfterOutNotSkipped(k) == k + 1

NextAfterOut(k) == k + 2

ParseArg ==
  /\ pc = "args"
  /\ IF i < argc
     THEN /\ IF IsRunArg(Arg(i))
             THEN /\ should_run' = TRUE
                  /\ i' = i + 1
                  /\ UNCHANGED output_name
             ELSE IF IsOutArg(i)
             THEN /\ output_name' = Arg(i + 1)
                  /\ i' = NextAfterOut(i)
                  /\ UNCHANGED should_run
             ELSE /\ i' = i + 1
                  /\ UNCHANGED <<should_run, output_name>>
          /\ UNCHANGED pc
     ELSE /\ pc' = "check_src"
          /\ UNCHANGED <<i, should_run, output_name>>
  /\ UNCHANGED <<argv, dirs, files, execs, src_files, obj_files,
                 output_path, log, exit_status>>

(***************************************************************************)
(* main.c:79-82.                                                           *)
(***************************************************************************)
\* main.c:80 with the check dropped
SrcDirMissingIgnored == FALSE

SrcDirMissing == ~dir_exists(src_dir)

CheckSrcDir ==
  /\ pc = "check_src"
  /\ LET calls == <<Ev("dir_exists", <<src_dir>>, BoolStr(dir_exists(src_dir)))>>
     IN IF SrcDirMissing
        THEN Fail(calls)
        ELSE /\ log' = log \o calls
             /\ pc' = "ensure_obj"
             /\ UNCHANGED exit_status
  /\ UNCHANGED <<argv, i, should_run, output_name, dirs, files, execs,
                 src_files, obj_files, output_path>>

(***************************************************************************)
(* main.c:84-97: a directory is created when absent; make_dir of b.h may   *)
(* fail.                                                                   *)
(***************************************************************************)
Mode0755 == <<"0", "7", "5", "5">>

\* main.c:87 / main.c:94 with the result of make_dir ignored
MakeDirFailedIgnored(made) == FALSE

MakeDirFailed(made) == ~made

EnsureDir(dir, here, next) ==
  /\ pc = here
  /\ LET seen == <<Ev("dir_exists", <<dir>>, BoolStr(dir_exists(dir)))>>
     IN IF ~dir_exists(dir)
        THEN \E made \in BOOLEAN :
               LET calls == seen
                            \o <<Ev("make_dir", <<dir, Mode0755>>, BoolStr(made))>>
               IN IF MakeDirFailed(made)
                  THEN Fail(calls) /\ UNCHANGED dirs
                  ELSE /\ dirs' = IF made THEN dirs \cup {dir} ELSE dirs
                       /\ log' = log \o calls
                       /\ pc' = next
                       /\ UNCHANGED exit_status
        ELSE /\ log' = log \o seen
             /\ pc' = next
             /\ UNCHANGED <<dirs, exit_status>>
  /\ UNCHANGED <<argv, i, should_run, output_name, files, execs,
                 src_files, obj_files, output_path>>

EnsureObjDir == EnsureDir(obj_dir, "ensure_obj", "ensure_bin")
EnsureBinDir == EnsureDir(bin_dir, "ensure_bin", "discover")

(***************************************************************************)
(* main.c:99-110: discovery.  find_all_files of b.h returns NULL or the    *)
(* entries of the directory that carry the extension, in listing order.    *)
(***************************************************************************)
FindResults == {NULL} \cup {[isNull |-> FALSE, items |-> q] : q \in Listings}

\* main.c:103 testing the pointer alone
NoSourcesNullOnly(found) == found.isNull

NoSources(found) == found.isNull \/ Count(found) = 0

Discover ==
  /\ pc = "discover"
  /\ \E found \in FindResults :
       LET calls == <<Ev("find_all_files", <<src_dir, <<"c">>>>,
                         IF found.isNull THEN "null" ELSE "array")>>
       IN /\ src_files' = found
          /\ IF NoSources(found)
             THEN /\ Fail(calls)
                  /\ UNCHANGED <<obj_files, i>>
             ELSE /\ obj_files' = array_new
                  /\ log' = log \o calls \o <<Ev("array_new", <<>>, "array")>>
                  /\ i' = 0
                  /\ pc' = "compile"
                  /\ UNCHANGED exit_status
  /\ UNCHANGED <<argv, should_run, output_name, dirs, files, execs,
                 output_path>>

(***************************************************************************)
(* main.c:113-130: one iteration of the compile loop.                      *)
(***************************************************************************)
\* main.c:113 with the loop left at the first failed compile
LoopNextStopOnFailure(k, compiled) ==
  IF compiled THEN k + 1 ELSE Count(src_files)

LoopNext(k, compiled) == k + 1

\* main.c:121-122 adding the object path a second time
AddCompiledTwice(arr, obj_file, compiled) ==
  IF compiled THEN array_add(array_add(arr, obj_file), obj_file) ELSE arr

AddCompiled(arr, obj_file, compiled) ==
  IF compiled THEN array_add(arr, obj_file) ELSE arr

CompileStep ==
  /\ pc = "compile"
  /\ i < Count(src_files)
  /\ \E oc \in CompileOutcomes :
       LET src_file == src_files.items[i + 1]
           obj_file == ObjPathOf(src_file)
           r == compile_file(src_file, obj_file, oc)
       IN /\ obj_files' = AddCompiled(obj_files, obj_file, r.ret)
          /\ files' = r.files
          /\ execs' = execs \cap r.files
          /\ log' = log \o r.calls
          /\ i' = LoopNext(i, r.ret)
  /\ UNCHANGED <<argv, pc, should_run, output_name, dirs, src_files,
                 output_path, exit_status>>

(***************************************************************************)
(* main.c:132-156: the summary, the link stage and the mode change.        *)
(* change_mode of b.h may fail; main ignores its result.                   *)
(***************************************************************************)
\* main.c:147 left out
NoModeCall(path, changed) == <<>>

ModeCall(path, changed) ==
  <<Ev("change_mode", <<path, Mode0755>>, BoolStr(changed))>>

\* main.c:150 without the test of should_run
AfterLinkAlwaysRun(linked) ==
  IF linked THEN "run" ELSE "cleanup"

AfterLink(linked) ==
  IF linked /\ should_run THEN "run" ELSE "cleanup"

LinkStage ==
  /\ pc = "compile"
  /\ ~(i < Count(src_files))
  /\ output_path' = pathjoin(bin_dir, output_name)
  /\ \E oc \in LinkOutcomes :
       LET r == link_files(output_path', obj_files, oc)
       IN IF r.ret
          THEN \E changed \in BOOLEAN :
                 /\ files' = r.files
                 /\ execs' = IF changed THEN r.execs \cup {output_path'}
                             ELSE r.execs
                 /\ log' = log \o r.calls \o ModeCall(output_path', changed)
                 /\ pc' = AfterLink(TRUE)
          ELSE /\ files' = r.files
               /\ execs' = r.execs
               /\ log' = log \o r.calls
               /\ pc' = AfterLink(FALSE)
  /\ UNCHANGED <<argv, i, should_run, output_name, dirs, src_files,
                 obj_files, exit_status>>

(***************************************************************************)
(* main.c:150-153: the run stage.                                          *)
(***************************************************************************)
RunStage ==
  /\ pc = "run"
  /\ \E st \in SystemStatuses :
       LET r == run_program(output_path, st)
       IN log' = log \o r.calls
  /\ pc' = "cleanup"
  /\ UNCHANGED <<argv, i, should_run, output_name, dirs, files, execs,
                 src_files, obj_files, output_path, exit_status>>

(***************************************************************************)
(* main.c:158-163: release and return 0.                                   *)
(***************************************************************************)
\* main.c:163 reporting a failed link stage
ReturnStatusFromLink ==
  IF \E k \in DOMAIN log : log[k].op = "link_files" /\ log[k].res = "false"
  THEN 1 ELSE 0

ReturnStatus == 0

Cleanup ==
  /\ pc = "cleanup"
  /\ log' = log \o <<Ev("free", <<output_path>>, "output_path"),
                     Ev("array_free", <<>>, "src_files"),
                     Ev("array_free", <<>>, "obj_files")>>
  /\ exit_status' = ReturnStatus
  /\ pc' = "exited"
  /\ UNCHANGED <<argv, i, should_run, output_name, dirs, files, execs,
                 src_files, obj_files, output_path>>

Next ==
  \/ ParseArg
  \/ CheckSrcDir
  \/ EnsureObjDir
  \/ EnsureBinDir
  \/ Discover
  \/ CompileStep
  \/ LinkStage
  \/ RunStage
  \/ Cleanup

Spec == Init /\ [][Next]_vars

(***************************************************************************)
(* The argument loop alone, over every argument vector within the bound.   *)
(***************************************************************************)
InitArgs == Start(ArgVectors)

NextArgs ==
  \/ ParseArg
  \/ CheckSrcDir

SpecArgs == InitArgs /\ [][NextArgs]_vars

(***************************************************************************)
(* Direct calls of compile_file, link_files and run_program with           *)
(* arbitrary arguments on an arbitrary filesystem.                         *)
(***************************************************************************)
UnitPaths == {ObjPathOf(pathjoin(src_dir, <<"a", ".", "c">>))} \cup OutPaths

UnitArrays ==
  {NULL} \cup {[isNull |-> FALSE, items |-> q] :
                 q \in {r \in SeqsUpTo(ObjPaths, MaxSrc) : Distinct(r)}}

InitUnit ==
  /\ argv = <<ProgName>>
  /\ pc = "unit"
  /\ i = 0
  /\ should_run = FALSE
  /\ output_name = DefaultOutputName
  /\ dirs = {src_dir, obj_dir, bin_dir}
  /\ files \in SUBSET UnitPaths
  /\ execs \in SUBSET (files \cap OutPaths)
  /\ src_files = NULL
  /\ obj_files = NULL
  /\ output_path = <<>>
  /\ log = <<>>
  /\ exit_status = 0 - 1

UnitCompileFile ==
  /\ pc = "unit"
  /\ \E src_file \in SrcPaths, oc \in CompileOutcomes :
       LET r == compile_file(src_file, ObjPathOf(src_file), oc)
       IN /\ files' = r.files
          /\ execs' = execs \cap r.files
          /\ log' = log \o r.calls
  /\ pc' = "unit_done"
  /\ UNCHANGED <<argv, i, should_run, output_name, dirs, src_files,
                 obj_files, output_path, exit_status>>

UnitLinkFiles ==
  /\ pc = "unit"
  /\ \E output \in OutPaths, arr \in UnitArrays, oc \in LinkOutcomes :
       LET r == link_files(output, arr, oc)
       IN /\ output_path' = output
          /\ obj_files' = arr
          /\ files' = r.files
          /\ execs' = r.execs
          /\ log' = log \o r.calls
  /\ pc' = "unit_done"
  /\ UNCHANGED <<argv, i, should_run, output_name, dirs, src_files,
                 exit_status>>

UnitRunProgram ==
  /\ pc = "unit"
  /\ \E program \in OutPaths, st \in SystemStatuses :
       LET r == run_program(program, st)
       IN /\ output_path' = program
          /\ log' = log \o r.calls
  /\ pc' = "unit_done"
  /\ UNCHANGED <<argv, i, should_run, output_name, dirs, files, execs,
                 src_files, obj_files, exit_status>>

NextUnit ==
  \/ UnitCompileFile
  \/ UnitLinkFiles
  \/ UnitRunProgram

SpecUnit == InitUnit /\ [][NextUnit]_vars

(***************************************************************************)
(* Properties.                                                             *)
(***************************************************************************)

\* C1: link_files called with a null array or an array of count 0 returns
\* failure and makes no system() call.
C1_LinkWithoutObjectsSpawnsNothing ==
  \A k \in DOMAIN log :
    (log[k].op = "link_files" /\ (obj_files.isNull \/ Count(obj_files) = 0))
      => /\ log[k].res = "false"
         /\ (k = 1 \/ log[k - 1].op # "system")

C1_Witness ==
  /\ pc = "unit_done"
  /\ obj_files.isNull
  /\ HasOp("link_files")

\* C4: run_program returns failure without a system() call when the target
\* is missing or not executable; when both checks pass it calls system()
\* and returns success exactly when the child exited with status 0.
C4_RunProgramChecksThenReportsExit ==
  \A k \in DOMAIN log :
    log[k].op = "run_program" =>
      LET program == log[k].arg[1]
          called == k > 1 /\ log[k - 1].op = "system"
      IN IF program \in files /\ program \in execs
         THEN /\ called
              /\ log[k - 1].arg = <<strcat_new(DotSlash, program)>>
              /\ log[k].res = "true" <=> log[k - 1].res = "exit0"
         ELSE /\ ~called
              /\ log[k].res = "false"

C4_Witness ==
  /\ pc = "unit_done"
  /\ HasOp("run_program")
  /\ output_path \in files
  /\ output_path \notin execs
  /\ ~HasOp("system")

\* C6: link_files called with a non-empty array returns success exactly
\* when system() returned 0 and the output path exists afterwards.
C6_LinkNeedsExitZeroAndOutput ==
  \A k \in DOMAIN log :
    (log[k].op = "link_files" /\ ~obj_files.isNull /\ Count(obj_files) > 0)
      => /\ k > 1
         /\ log[k - 1].op = "system"
         /\ log[k].res = "true"
              <=> (log[k - 1].res = "exit0" /\ output_path \in files)

C6_Witness ==
  /\ pc = "unit_done"
  /\ HasOp("link_files")
  /\ Count(obj_files) > 0
  /\ \E k \in DOMAIN log : log[k].op = "system" /\ log[k].res = "exit1"
  /\ output_path \in files

SrcOfAttempt(e) == e.arg[5]
CompileAttempts ==
  LET rc == OpsOf("run_command")
  IN [k \in 1..Len(rc) |-> SrcOfAttempt(rc[k])]

ChildSucceeded(src_file) ==
  \E k \in DOMAIN log :
    /\ log[k].op = "run_command"
    /\ SrcOfAttempt(log[k]) = src_file
    /\ log[k].res = "exit0"

RECURSIVE ObjsOfSucceeded(_, _)
ObjsOfSucceeded(items, k) ==
  IF k > Len(items) THEN <<>>
  ELSE (IF ChildSucceeded(items[k]) THEN <<ObjPathOf(items[k])>> ELSE <<>>)
       \o ObjsOfSucceeded(items, k + 1)

PastDiscovery == ~src_files.isNull /\ Count(src_files) > 0
LinkSucceeded ==
  \E k \in DOMAIN log : log[k].op = "link_files" /\ log[k].res = "true"

\* C2: after the compile loop the object array holds exactly the object
\* paths of the sources whose compile succeeded in this run, in order,
\* whatever obj/ held at start.
C2_ObjectsAreThoseCompiledInThisRun ==
  (~obj_files.isNull /\ PastDiscovery /\ i = Count(src_files))
    => obj_files.items = ObjsOfSucceeded(src_files.items, 1)

\* C3: every discovered source gets exactly one compile attempt, in
\* discovery order, whatever the outcome of the attempts before it.
C3_OneAttemptPerSourceInOrder ==
  IF PastDiscovery
  THEN /\ CompileAttempts = SubSeq(src_files.items, 1, i)
       /\ pc # "compile" => i = Count(src_files)
  ELSE CompileAttempts = <<>>

C3_Witness ==
  /\ pc = "exited"
  /\ PastDiscovery
  /\ Count(src_files) >= 2
  /\ OpsOf("run_command")[1].res # "exit0"
  /\ OpsOf("compile_file")[1].res = "false"
  /\ Len(CompileAttempts) = Count(src_files)

\* C5: when src/ does not exist the run ends through FAIL with no
\* make_dir, find_all_files, run_command or system call made.
C5_MissingSrcDirStopsFirst ==
  src_dir \notin dirs =>
    /\ pc \in {"args", "check_src", "exited"}
    /\ ~HasOp("make_dir") /\ ~HasOp("find_all_files")
    /\ ~HasOp("run_command") /\ ~HasOp("system")
    /\ pc = "exited" =>
         log[Len(log)].op = "FAIL"

C5_Witness ==
  /\ pc = "exited"
  /\ dirs = {}
  /\ HasOp("FAIL")

C8_RunOnlyWhenEnabledAndLinked ==
  LET runs == Len(OpsOf("run_program"))
  IN /\ runs <= 1
     /\ runs = 1 => should_run /\ LinkSucceeded
     /\ (pc \in {"cleanup", "exited"} /\ should_run /\ LinkSucceeded)
          => runs = 1
     /\ \A k \in DOMAIN log :
          (log[k].op = "system" /\ SubSeq(log[k].arg[1], 1, 2) = DotSlash)
            => /\ should_run
               /\ \E j \in 1..(k - 1) :
                    log[j].op = "link_files" /\ log[j].res = "true"

C8_Witness ==
  /\ pc = "exited"
  /\ Len(OpsOf("run_program")) = 1
  /\ \E k \in DOMAIN log :
       log[k].op = "system" /\ SubSeq(log[k].arg[1], 1, 2) = DotSlash

\* C10: when discovery yields NULL or an empty array the run ends through
\* FAIL: no compile or link subprocess, no object array.
C10_NoSourcesIsFatal ==
  (HasOp("find_all_files") /\ (src_files.isNull \/ Count(src_files) = 0))
    => /\ pc = "exited"
       /\ log[Len(log)].op = "FAIL"
       /\ obj_files = NULL
       /\ ~HasOp("array_new") /\ ~HasOp("run_command") /\ ~HasOp("system")
       /\ ~HasOp("link_files")

C10_Witness ==
  /\ HasOp("find_all_files")
  /\ ~src_files.isNull
  /\ Count(src_files) = 0
  /\ pc = "exited"

RECURSIVE IsOutValue(_)
IsOutValue(k) ==
  /\ k >= 2
  /\ Arg(k - 1) = OutFlag
  /\ ~IsOutValue(k - 1)

OutValues == {k \in 1..(argc - 1) : IsOutValue(k)}
LastOf(S) == CHOOSE k \in S : \A j \in S : j <= k

\* C9 as stated: the run stage is enabled exactly when some argument
\* equals --run or run, and the output name is the value following an
\* --out when one is given and "program" otherwise.
C9_RunIffSomeArgumentIsRun ==
  pc # "args" =>
    /\ should_run <=> \E k \in 1..(argc - 1) : Arg(k) \in {RunFlag, RunWord}
    /\ IF \E k \in 1..(argc - 2) : Arg(k) = OutFlag
       THEN \E k \in 1..(argc - 2) :
              Arg(k) = OutFlag /\ output_name = Arg(k + 1)
       ELSE output_name = DefaultOutputName

\* C9 amended: the run stage is enabled exactly when some argument that is
\* not taken as the value of an --out equals --run or run; the output name
\* is the value taken by the last --out that takes one, and "program" when
\* no --out takes a value.
C9_RunIffUnconsumedArgumentIsRun ==
  pc # "args" =>
    /\ should_run <=> \E k \in 1..(argc - 1) :
                        ~IsOutValue(k) /\ Arg(k) \in {RunFlag, RunWord}
    /\ output_name = IF OutValues = {} THEN DefaultOutputName
                     ELSE Arg(LastOf(OutValues))

C9_Witness ==
  /\ pc = "check_src"
  /\ \E k \in 1..(argc - 1) : IsOutValue(k) /\ Arg(k) = RunWord
  /\ ~should_run
  /\ output_name = RunWord

Releases(op, what) ==
  Len(SelectSeq(log, LAMBDA e : e.op = op /\ e.res = what))

\* C11: on every path by which the run terminates, each of the source
\* array, the object array and the output path that was created has been
\* released exactly once, and none is ever released twice.
C11_OwnedResourcesReleasedOnce ==
  /\ Releases("array_free", "src_files") <= 1
  /\ Releases("array_free", "obj_files") <= 1
  /\ Releases("free", "output_path") <= 1
  /\ pc = "exited" =>
       /\ ~src_files.isNull => Releases("array_free", "src_files") = 1
       /\ ~obj_files.isNull => Releases("array_free", "obj_files") = 1
       /\ output_path # <<>> => Releases("free", "output_path") = 1

\* C12: obj/ and bin/ are created, with mode 0755, only when absent; a
\* failed creation ends the run through FAIL at once: before bin/ is
\* examined when it was obj/, and before discovery and any subprocess.
C12_DirsCreatedWhenAbsentFailureFatal ==
  \A k \in DOMAIN log :
    /\ log[k].op = "make_dir" =>
         /\ log[k].arg[1] \in {obj_dir, bin_dir}
         /\ log[k].arg[2] = <<"0", "7", "5", "5">>
         /\ k > 1
         /\ log[k - 1] = Ev("dir_exists", <<log[k].arg[1]>>, "false")
    /\ (log[k].op = "dir_exists" /\ log[k].res = "true")
         => (k = Len(log) \/ log[k + 1].op # "make_dir")
    /\ (log[k].op = "dir_exists" /\ log[k].res = "false"
        /\ log[k].arg[1] # src_dir)
         => log[k + 1].op = "make_dir"
    /\ (log[k].op = "make_dir" /\ log[k].res = "false") =>
         /\ pc = "exited"
         /\ Len(log) = k + 1
         /\ log[k + 1].op = "FAIL"
         /\ ~HasOp("find_all_files") /\ ~HasOp("run_command")
         /\ ~HasOp("system")
         /\ log[k].arg[1] = obj_dir =>
              ~\E j \in DOMAIN log : log[j].arg = <<bin_dir>>

C12_Witness ==
  /\ pc = "exited"
  /\ \E k \in DOMAIN log :
       /\ log[k].op = "make_dir"
       /\ log[k].arg[1] = obj_dir
       /\ log[k].res = "false"
  /\ bin_dir \notin dirs

IsPrefix(pre, str) ==
  Len(pre) <= Len(str) /\ SubSeq(str, 1, Len(pre)) = pre
IsLinkSpawn(e) == e.op = "system" /\ IsPrefix(LinkPrefix, e.arg[1])
IsRunSpawn(e) == e.op = "system" /\ IsPrefix(DotSlash, e.arg[1])

RECURSIVE WordsFrom(_, _, _, _)
WordsFrom(str, k, word, done) ==
  IF k > Len(str) THEN Append(done, word)
  ELSE IF str[k] = " " THEN WordsFrom(str, k + 1, <<>>, Append(done, word))
  ELSE WordsFrom(str, k + 1, Append(word, str[k]), done)

Words(str) == WordsFrom(str, 1, <<>>, <<>>)

\* C14: every run that passes discovery calls link_files exactly once,
\* after the compile loop, also when fewer objects than sources compiled;
\* the command it runs is gcc -o, the output path, then every object
\* path of the array once and in array order.
C14_LinkOnceWithEveryObjectInOrder ==
  /\ Len(OpsOf("link_files")) <= 1
  /\ (PastDiscovery /\ pc # "compile") => Len(OpsOf("link_files")) = 1
  /\ HasOp("link_files") =>
       /\ PastDiscovery
       /\ Len(OpsOf("compile_file")) = Count(src_files)
       /\ output_path = bin_dir \o <<"/">> \o output_name
  /\ \A k \in DOMAIN log :
       IsLinkSpawn(log[k]) =>
         Words(log[k].arg[1])
           = <<<<"g", "c", "c">>, <<"-", "o">>, output_path>>
             \o obj_files.items

C14_Witness ==
  /\ PastDiscovery
  /\ Count(obj_files) >= 1
  /\ Count(obj_files) < Count(src_files)
  /\ \E k \in DOMAIN log : IsLinkSpawn(log[k])

\* C15: compile_file returns true exactly when run_command returned a
\* capture (the process was created) and the object path exists
\* afterwards, whatever the exit status of the child; it returns false
\* when the process could not be created, even if the object file exists.
C15_CompileDecidedByObjectExistence ==
  \A k \in DOMAIN log :
    log[k].op = "compile_file" =>
      /\ k > 1
      /\ log[k - 1].op = "run_command"
      /\ log[k - 1].arg[4] = log[k].arg[2]
      /\ log[k].res = "true"
           <=> (log[k - 1].res # "nospawn" /\ log[k].arg[2] \in files)

C15_Witness ==
  /\ pc = "unit_done"
  /\ \E k \in DOMAIN log :
       /\ log[k].op = "compile_file"
       /\ log[k].res = "false"
       /\ log[k].arg[2] \in files
       /\ log[k - 1].res = "nospawn"

ExpectedObjFile(src_file) ==
  CASE src_file = <<"s", "r", "c", "/", "a", ".", "c">>
         -> <<"o", "b", "j", "/", "a", ".", "o">>
    [] src_file = <<"s", "r", "c", "/", "b", ".", "c">>
         -> <<"o", "b", "j", "/", "b", ".", "o">>
    [] src_file = <<"s", "r", "c", "/", "m", ".", "c", ".", "c">>
         -> <<"o", "b", "j", "/", "m", ".", "o", ".", "c">>

AppendedObjs ==
  LET ok == SelectSeq(log, LAMBDA e : e.op = "compile_file" /\ e.res = "true")
  IN [k \in 1..Len(ok) |-> ok[k].arg[2]]

OutFlagsWithValue ==
  {k \in 1..(argc - 2) : Arg(k) = OutFlag /\ ~IsOutValue(k)}

\* C17: the token after an --out is a value and never a flag, and a
\* trailing --out is ignored: with --out only as the last argument the
\* output name stays "program", with several --out <name> pairs the last
\* one wins, and a run or --run that directly follows an --out becomes
\* the output name without enabling the run stage.
C17_OutTakesNextTokenAsValue ==
  pc # "args" =>
    /\ ({k \in 1..(argc - 1) : Arg(k) = OutFlag} \subseteq {argc - 1})
         => output_name = DefaultOutputName
    /\ \A k \in OutFlagsWithValue :
         (\A j \in OutFlagsWithValue : j <= k) => output_name = Arg(k + 1)
    /\ (\A k \in 1..(argc - 1) :
          Arg(k) \in {RunFlag, RunWord}
            => (k >= 2 /\ k - 1 \in OutFlagsWithValue))
         => ~should_run

C17_Witness ==
  /\ pc = "check_src"
  /\ argv = <<ProgName, OutFlag, AppName, OutFlag, RunWord>>
  /\ output_name = RunWord
  /\ ~should_run

ObjCountWithinProcessed ==
  (PastDiscovery /\ ~obj_files.isNull) =>
    /\ Count(obj_files) <= i
    /\ i <= Count(src_files)
    /\ Count(obj_files) <= Len(OpsOf("compile_file"))
    /\ Count(obj_files) <= Count(src_files)

OneAppendSourcesFixed ==
  (PastDiscovery /\ ~obj_files.isNull) =>
    /\ src_files' = src_files
    /\ \/ obj_files' = obj_files
       \/ /\ i' = i + 1
          /\ Count(obj_files') = Count(obj_files) + 1
          /\ SubSeq(obj_files'.items, 1, Count(obj_files)) = obj_files.items

\* C18: throughout the compile loop the count of the object array never
\* exceeds the number of sources already processed, hence never the source
\* count it was created for; a loop iteration appends at most one entry
\* and the source array is never modified after discovery.
C18_ObjCountBoundedByProcessed ==
  [](ObjCountWithinProcessed) /\ [][OneAppendSourcesFixed]_vars

C18_Witness ==
  /\ pc = "compile"
  /\ i = Count(src_files)
  /\ Count(src_files) >= 2
  /\ Count(obj_files) = Count(src_files)

====
